---- MODULE Spec2Model ----
(***************************************************************************)
(* Model of the simulation core of tweaktok (class SimulationEngine):      *)
(* startSimulation, runMoreRounds, runRounds, exportCsv and the helpers     *)
(* they call.                                                               *)
(*                                                                          *)
(* Numbers.  The code computes in floating point.  The model computes in    *)
(* fixed point: a real x is the integer floor(x * One).  Counts, ids,       *)
(* round indices, followers and reach are plain integers.  Products and     *)
(* quotients truncate toward minus infinity (Mul, Div).                     *)
(*                                                                          *)
(* Randomness.  Math.random() is a generator with an internal state (rng);  *)
(* every call advances the state and returns a value in [0,1).  The         *)
(* generator can return exactly 0.                                          *)
(*                                                                          *)
(* Presentation.  The results panel renders the snapshot the engine         *)
(* returned; the snapshot shares the rows array with the engine (Render).   *)
(*                                                                          *)
(* Caller.  SpecCaller drives the engine as a caller of its API does: the   *)
(* engine keeps a one-level copy of the configuration, whose nested records *)
(* stay the caller's (EditConfig, MutateNested).                            *)
(***************************************************************************)
EXTENDS Integers, Sequences, FiniteSets, TLC

\* ------------------------------------------------------------------ bounds
One == 1000          \* fixed-point unit: the integer that stands for 1.0
RngM == 16           \* number of states (and distinct values) of Math.random
MaxRounds == 3       \* cap on roundsDone reached through extensions
MaxExtends == 2      \* cap on the number of extensions after one start

\* --------------------------------------------------------- fixed-point help
Max(a, b) == IF a >= b THEN a ELSE b
Min(a, b) == IF a <= b THEN a ELSE b
Abs(a) == IF a >= 0 THEN a ELSE 0 - a
Milli(n) == (n * One) \div 1000
Mul(a, b) == (a * b) \div One
Div(a, b) == (a * One) \div b
\* Math.floor and Math.round of a fixed-point number, as plain integers
Floor(x) == x \div One
Round(x) == (x + (One \div 2)) \div One

RECURSIVE SumSeq(_)
SumSeq(s) == IF s = <<>> THEN 0 ELSE Head(s) + SumSeq(Tail(s))

Null == [null |-> TRUE]
IsNull(x) == "null" \in DOMAIN x

\* ------------------------------------------------------- constants & utils
ATTRS == <<"humor", "insight", "bait", "controversy", "news", "dunk">>
USER_TYPES == <<"Normal", "Joker", "Troll", "Intellectual", "Journalist">>
AttrSet == {ATTRS[i] : i \in 1..Len(ATTRS)}
TypeSet == {USER_TYPES[i] : i \in 1..Len(USER_TYPES)}
REACTIONS == <<"strong_agree", "agree", "not_sure", "disagree", "strong_disagree">>
ReactionSet == {REACTIONS[i] : i \in 1..Len(REACTIONS)}

\* clamp01 that returns its argument
clamp01Identity(x) == x

clamp01(x) == Max(0, Min(One, x))

\* Math.random(): the generator's next state, and the value a state yields
RngNext(s) == (37 * s + 11) % RngM
RandomValue(s) == (s * One) \div RngM

\* sqrt(-2 ln u) for u in (0,1], tabulated
BoxRadius(u) ==
    IF u >= Milli(900) THEN Milli(330)
    ELSE IF u >= Milli(700) THEN Milli(670)
    ELSE IF u >= Milli(500) THEN Milli(1010)
    ELSE IF u >= Milli(300) THEN Milli(1350)
    ELSE IF u >= Milli(150) THEN Milli(1740)
    ELSE IF u >= Milli(50) THEN Milli(2150)
    ELSE Milli(2800)

\* cos(2 pi v) for v in [0,1): with w = 4|v - 1/2| - 1, cos = sin(pi w / 2)
\* approximated by w (3 - w^2) / 2
BoxCos(v) ==
    LET w == 4 * Abs(v - (One \div 2)) - One
    IN  Mul(w, 3 * One - Mul(w, w)) \div 2

\* randNorm draws u and v, redrawing while the value is 0; the result is a
\* record [val, rng]
RECURSIVE NonZeroDraw(_)
NonZeroDraw(s) ==
    LET s1 == RngNext(s)
    IN  IF RandomValue(s1) = 0 THEN NonZeroDraw(s1) ELSE s1

randNorm(mu, sigma, rng0) ==
    LET su == NonZeroDraw(rng0)
        sv == NonZeroDraw(su)
        z  == Mul(BoxRadius(RandomValue(su)), BoxCos(RandomValue(sv)))
    IN  [val |-> mu + Mul(sigma, z), rng |-> sv]

\* choiceWeighted: r = random * total, first index whose running remainder
\* is <= 0, else the last option
RECURSIVE ChoiceIndex(_, _, _)
ChoiceIndex(weights, r, i) ==
    IF i > Len(weights) THEN Len(weights)
    ELSE IF r - weights[i] <= 0 THEN i
    ELSE ChoiceIndex(weights, r - weights[i], i + 1)

choiceWeighted(opts, weights, draw) ==
    LET total == SumSeq(weights)
        r == Mul(draw, total)
    IN  opts[ChoiceIndex(weights, r, 1)]

TYPE_BIAS ==
    [Normal |-> [humor |-> Milli(500), insight |-> Milli(500), bait |-> Milli(300),
                 controversy |-> Milli(300), news |-> Milli(500), dunk |-> Milli(300)],
     Joker |-> [humor |-> Milli(800), insight |-> Milli(300), bait |-> Milli(300),
                controversy |-> Milli(300), news |-> Milli(200), dunk |-> Milli(600)],
     Troll |-> [humor |-> Milli(300), insight |-> Milli(100), bait |-> Milli(800),
                controversy |-> Milli(800), news |-> Milli(100), dunk |-> Milli(600)],
     Intellectual |-> [humor |-> Milli(200), insight |-> Milli(800), bait |-> Milli(100),
                       controversy |-> Milli(200), news |-> Milli(600), dunk |-> Milli(100)],
     Journalist |-> [humor |-> Milli(250), insight |-> Milli(550), bait |-> Milli(100),
                     controversy |-> Milli(200), news |-> Milli(900), dunk |-> Milli(100)]]

VIBE_PROB ==
    [Normal |-> Milli(250), Joker |-> 0, Troll |-> 0,
     Intellectual |-> Milli(400), Journalist |-> Milli(400)]

\* VIBE_PROB[t] || 0.5 : a zero entry falls through to 0.5
VibeProbOrHalf(t) == IF VIBE_PROB[t] = 0 THEN Milli(500) ELSE VIBE_PROB[t]

TYPE_REACT_UTILITY ==
    [Normal |-> [SA |-> Milli(1400), A |-> Milli(1100), NS |-> 0 - Milli(300),
                 D |-> 0 - Milli(500), SD |-> 0 - Milli(1000)],
     Joker |-> [SA |-> Milli(1200), A |-> Milli(1100), NS |-> 0 - Milli(200),
                D |-> 0 - Milli(400), SD |-> 0 - Milli(1000)],
     Intellectual |-> [SA |-> Milli(900), A |-> Milli(1000), NS |-> Milli(600),
                       D |-> Milli(600), SD |-> 0 - Milli(700)],
     Journalist |-> [SA |-> Milli(800), A |-> Milli(1000), NS |-> Milli(700),
                     D |-> Milli(700), SD |-> 0 - Milli(700)],
     Troll |-> [SA |-> Milli(1100), A |-> 0 - Milli(600), NS |-> 0 - Milli(800),
                D |-> 0 - Milli(600), SD |-> Milli(1200)]]

\* ---------------------------------------------------------- pure helpers
applyBoosts(eff, boosts) ==
    [k \in AttrSet |-> clamp01(Mul(eff[k], One + boosts[k]))]

vibeAdjust(eff, vibe, cfg) ==
    IF ~vibe THEN eff
    ELSE [eff EXCEPT
            !.humor = clamp01(Mul(eff.humor, One - cfg.vibeHumorPenalty)),
            !.controversy = clamp01(Mul(eff.controversy, One - cfg.vibeControversyPenalty)),
            !.insight = clamp01(Mul(eff.insight, One + cfg.vibeInsightBoost))]

\* log10 of a positive integer: table for 1..10, linear between neighbours
\* for 10..99, one decade per division by 10 above
Log10Table == <<0, 301, 477, 602, 699, 778, 845, 903, 954, 1000>>
RECURSIVE Log10(_)
Log10(n) ==
    IF n < 10 THEN Milli(Log10Table[Max(1, n)])
    ELSE IF n < 100 THEN
        LET d == n \div 10
            lo == Milli(Log10Table[d])
            hi == Milli(Log10Table[d + 1])
        IN  One + lo + ((hi - lo) * (n % 10)) \div 10
    ELSE One + Log10(n \div 10)

\* reachFromAttrs without Math.max(5, ...)
reachFromAttrsNoMinimum(eff, minR, maxR, followerFactor, followers, vibeOn, vibeReachBoost, draw) ==
    LET base == minR + (draw * (maxR - minR)) \div One
        positive == Mul(Milli(800), eff.humor) + Mul(Milli(800), eff.bait)
                    + Mul(Milli(600), eff.insight) + Mul(Milli(500), eff.news)
                    + Mul(Milli(400), eff.controversy) + Mul(Milli(300), eff.dunk)
        r1 == base * (Milli(300) + 2 * positive)
        r2 == Mul(r1, One + Mul(followerFactor, Log10(1 + followers)))
        r3 == IF vibeOn THEN Mul(r2, One + vibeReachBoost) ELSE r2
    IN  Floor(r3)

\* draw is the value of the one Math.random() call
reachFromAttrs(eff, minR, maxR, followerFactor, followers, vibeOn, vibeReachBoost, draw) ==
    LET base == minR + (draw * (maxR - minR)) \div One
        positive == Mul(Milli(800), eff.humor) + Mul(Milli(800), eff.bait)
                    + Mul(Milli(600), eff.insight) + Mul(Milli(500), eff.news)
                    + Mul(Milli(400), eff.controversy) + Mul(Milli(300), eff.dunk)
        r1 == base * (Milli(300) + 2 * positive)
        r2 == Mul(r1, One + Mul(followerFactor, Log10(1 + followers)))
        r3 == IF vibeOn THEN Mul(r2, One + vibeReachBoost) ELSE r2
    IN  Max(5, Floor(r3))

\* divide the five probabilities by their sum when the sum exceeds 1
\* the renormalisation of the impression loop left out
RenormalizeSkipped(p) == p

Renormalize(p) ==
    LET total == p.strong_agree + p.agree + p.not_sure + p.disagree + p.strong_disagree
    IN  IF total > One
        THEN [k \in ReactionSet |-> Div(p[k], total)]
        ELSE p

reactionProbs(eff) ==
    LET pos == Mul(Milli(450), eff.insight) + Mul(Milli(350), eff.humor)
               + Mul(Milli(350), eff.dunk)
        neg == Mul(Milli(350), eff.controversy) + Mul(Milli(300), eff.bait)
               + Mul(Milli(150), eff.dunk)
        amb == Mul(Milli(300), eff.controversy) + Mul(Milli(150), eff.news)
        p == [strong_agree |-> clamp01(Milli(30) + Mul(Milli(550), pos)),
              agree |-> clamp01(Milli(60) + Mul(Milli(500),
                            Mul(Milli(400), eff.humor) + Mul(Milli(500), eff.insight)
                            + Mul(Milli(300), eff.news))),
              not_sure |-> clamp01(Milli(20) + Mul(Milli(350), amb)
                            - Mul(Milli(50), eff.insight)),
              disagree |-> clamp01(Milli(20) + Mul(Milli(450), eff.controversy)
                            + Mul(Milli(50), eff.bait) - Mul(Milli(50), eff.insight)),
              strong_disagree |-> clamp01(Milli(10) + Mul(Milli(300), neg))]
    IN  Renormalize(p)

applyHomophily(probs, h) ==
    LET out == [probs EXCEPT
                  !.strong_agree = Mul(probs.strong_agree, One + h),
                  !.agree = Mul(probs.agree, One + Mul(Milli(600), h)),
                  !.disagree = Mul(probs.disagree, One - Mul(Milli(700), h)),
                  !.strong_disagree = Mul(probs.strong_disagree, One - h)]
    IN  Renormalize(out)

baitFlagProb(eff, vibeOn, flagMult) ==
    LET p0 == Mul(Milli(100), eff.bait) + Mul(Milli(80), eff.controversy)
              + Mul(Milli(60), eff.dunk)
        p == IF vibeOn THEN Mul(p0, flagMult) ELSE p0
    IN  clamp01(Milli(10) + p)

commentProb(eff, vibeOn, boost) ==
    LET hi == Mul(Milli(400), eff.controversy) + Mul(Milli(350), eff.bait)
              + Mul(Milli(300), eff.dunk)
        med == Mul(Milli(180), eff.humor + eff.insight + eff.news) \div 3
        p == clamp01(Milli(30) + hi + med)
    IN  IF vibeOn THEN clamp01(Mul(p, One + boost)) ELSE p

\* sampleReaction: the five labels plus "none" carrying max(0, 1 - sum)
sampleReaction(probs, draw) ==
    LET w5 == [i \in 1..5 |-> probs[REACTIONS[i]]]
        rem == Max(0, One - SumSeq(w5))
        labels == REACTIONS \o <<"none">>
        weights == w5 \o <<rem>>
        total == SumSeq(weights)
        r == Mul(draw, total)
        RECURSIVE Pick(_, _)
        Pick(i, rr) ==
            IF i > Len(labels) THEN "none"
            ELSE IF rr - weights[i] <= 0 THEN labels[i]
            ELSE Pick(i + 1, rr - weights[i])
    IN  Pick(1, r)

engagementScore(counts, comments, user, W) ==
    LET U == TYPE_REACT_UTILITY[user.type]
        wrBase == W.strong_agree * counts.strong_agree + W.agree * counts.agree
                  + W.not_sure * counts.not_sure + W.disagree * counts.disagree
                  + W.strong_disagree * counts.strong_disagree
        wrType == U.SA * counts.strong_agree + U.A * counts.agree
                  + U.NS * counts.not_sure + U.D * counts.disagree
                  + U.SD * counts.strong_disagree
        wr == Mul(Milli(500), wrBase) + Mul(Milli(500), wrType)
    IN  Mul(user.wReact, wr) + Mul(One - user.wReact, comments * One)

\* tanh, by the rational approximation x (27 + x^2) / (27 + 9 x^2) on
\* [-3, 3] and the limits -1, 1 outside
Tanh(x) ==
    IF x >= 3 * One THEN One
    ELSE IF x <= 0 - 3 * One THEN 0 - One
    ELSE LET x2 == Mul(x, x)
         IN  (x * (27 * One + x2)) \div (27 * One + 9 * x2)

\* const adj = Math.tanh((reward - 0.5 * ref) / (0.75 * ref))
LearnAdj(reward, ref) ==
    Tanh(Div(reward - Mul(Milli(500), ref), Mul(Milli(750), ref)))

\* the reward-driven step of the tone propensity
VibeRewardStep(user, vibeUsed, reward, ref) ==
    clamp01(user.vibeStrategy
            + Mul(Mul(user.learnRate, LearnAdj(reward, ref)),
                  (IF vibeUsed THEN One ELSE 0) - user.vibeStrategy))

\* learn mutates the user; the model returns the updated user
learn(user, attrs, vibeUsed, reward, ref) ==
    LET lr == user.learnRate
        adj == LearnAdj(reward, ref)
        step(k) == clamp01(user.strategy[k]
                           + Mul(Mul(lr, adj), attrs[k] - user.strategy[k]))
        strat == [k \in AttrSet |->
                    clamp01(Mul(Milli(970), step(k))
                            + Mul(Milli(30), TYPE_BIAS[user.type][k]))]
        v1 == VibeRewardStep(user, vibeUsed, reward, ref)
        typeBias == IF user.type = "Normal" THEN Milli(50)
                    ELSE VibeProbOrHalf(user.type)
    IN  [user EXCEPT
            !.strategy = strat,
            !.vibeStrategy = clamp01(Mul(Milli(950), v1) + Mul(Milli(50), typeBias))]

\* the follower gain granted whether or not the post cleared
FollowerDeltaGainAlways(counts, comments, baitFlags, cfg, interactions, reward, ref) ==
    LET baitRatio == IF interactions > 0 THEN Div(baitFlags * One, interactions * One) ELSE 0
        gain == Mul(cfg.followGainRate,
                    2 * One * counts.strong_agree + One * counts.agree
                    + Milli(200) * comments)
        loss == Mul(cfg.followLossRate, Max(0, baitRatio - cfg.baitRatioThresh)) * 10
    IN  Round(gain - loss)

\* followerUpdate mutates the user; the model returns the new follower count
FollowerDelta(counts, comments, baitFlags, cfg, interactions, reward, ref) ==
    LET baitRatio == IF interactions > 0 THEN Div(baitFlags * One, interactions * One) ELSE 0
        cleared == reward > Mul(cfg.followGainThresh, ref)
        gain == IF cleared
                THEN Mul(cfg.followGainRate,
                         2 * One * counts.strong_agree + One * counts.agree
                         + Milli(200) * comments)
                ELSE 0
        loss == Mul(cfg.followLossRate, Max(0, baitRatio - cfg.baitRatioThresh)) * 10
    IN  Round(gain - loss)

\* followerUpdate without Math.max(0, ...)
followerUpdateUnclamped(user, counts, comments, baitFlags, cfg, interactions, reward, ref) ==
    user.followers
    + FollowerDelta(counts, comments, baitFlags, cfg, interactions, reward, ref)

followerUpdate(user, counts, comments, baitFlags, cfg, interactions, reward, ref) ==
    Max(0, user.followers
           + FollowerDelta(counts, comments, baitFlags, cfg, interactions, reward, ref))

\* ------------------------------------------------------------ buildUsers
\* n normal draws in a row: [vals, rng]
RECURSIVE DrawNormals(_, _, _)
DrawNormals(mus, sigma, rng0) ==
    IF mus = <<>> THEN [vals |-> <<>>, rng |-> rng0]
    ELSE LET d == randNorm(Head(mus), sigma, rng0)
             rest == DrawNormals(Tail(mus), sigma, d.rng)
         IN  [vals |-> <<d.val>> \o rest.vals, rng |-> rest.rng]

AttrRecord(vals) ==
    [humor |-> vals[1], insight |-> vals[2], bait |-> vals[3],
     controversy |-> vals[4], news |-> vals[5], dunk |-> vals[6]]

\* one iteration of the loop of buildUsers: [user, rng]
BuildUser(i, labels, weights, learnRate, followersMean, baseVibeProb, rng0) ==
    LET s1 == RngNext(rng0)
        t == choiceWeighted(labels, weights, RandomValue(s1))
        ns == DrawNormals([j \in 1..Len(ATTRS) |-> TYPE_BIAS[t][ATTRS[j]]], Milli(80), s1)
        strat == AttrRecord([j \in 1..Len(ATTRS) |-> clamp01(ns.vals[j])])
        vb == randNorm(IF t = "Normal" THEN baseVibeProb ELSE VibeProbOrHalf(t),
                       Milli(150), ns.rng)
        s2 == RngNext(vb.rng)
        fo == randNorm(followersMean * One, (followersMean * One) \div 2, s2)
    IN  [user |-> [id |-> i,
                   type |-> t,
                   strategy |-> strat,
                   vibeStrategy |-> clamp01(vb.val),
                   wReact |-> clamp01(Milli(500) + Mul(RandomValue(s2), Milli(400))),
                   learnRate |-> learnRate,
                   followers |-> Max(0, Round(Max(0, fo.val)))],
         rng |-> fo.rng]

\* the loop of buildUsers; B is the loop state [i, users, rng]
RECURSIVE BuildLoop(_, _, _, _, _, _, _)
BuildLoop(n, labels, weights, learnRate, followersMean, baseVibeProb, B) ==
    IF B.i >= n THEN B
    ELSE LET b == BuildUser(B.i, labels, weights, learnRate, followersMean,
                            baseVibeProb, B.rng)
         IN  BuildLoop(n, labels, weights, learnRate, followersMean, baseVibeProb,
                       [i |-> B.i + 1, users |-> Append(B.users, b.user),
                        rng |-> b.rng])

\* [users, rng]
buildUsers(n, mix, learnRate, followersMean, baseVibeProb, rng0) ==
    LET labels == USER_TYPES
        sum == SumSeq([j \in 1..Len(labels) |-> mix[labels[j]]])
        total == IF sum = 0 THEN 1 ELSE sum
        weights == [j \in 1..Len(labels) |-> (mix[labels[j]] * One) \div total]
    IN  BuildLoop(n, labels, weights, learnRate, followersMean, baseVibeProb,
                  [i |-> 0, users |-> <<>>, rng |-> rng0])

\* ------------------------------------------------------------- runRounds
ZeroCounts ==
    [strong_agree |-> 0, agree |-> 0, not_sure |-> 0, disagree |-> 0,
     strong_disagree |-> 0]

SumCounts(c) ==
    c.strong_agree + c.agree + c.not_sure + c.disagree + c.strong_disagree

\* One impression (one iteration of the loop over reachBudget).  L is the
\* loop state [i, counts, baitFlags, comments, interactions, penalty,
\* commentP, rng, imps]; imps records what each impression used.
\* the penalty following the current ratio instead of staying on
PenaltyFlagNotSticky(penalty, baitRatio, thresh) == baitRatio >= thresh

\* the penalty triggering only when the ratio exceeds the threshold
PenaltyFlagStrict(penalty, baitRatio, thresh) == penalty \/ baitRatio > thresh

\* the penalty flag after an impression: if (!penalty && baitRatio >=
\* cfg.baitRatioThresh) penalty = true
PenaltyFlag(penalty, baitRatio, thresh) == penalty \/ baitRatio >= thresh

Impression(u, cfg, probsBase, baitP, L) ==
    LET i == L.i
        den == u.followers + cfg.globalAudienceK
        \* 0/0 is NaN: every comparison with it is false
        share0 == IF den = 0 THEN 0 ELSE Div(u.followers * One, den * One)
        localShare == IF i > cfg.viralityThreshold
                      THEN Max(cfg.localFloor, Mul(Milli(300), share0))
                      ELSE share0
        s1 == RngNext(L.rng)
        isLocal == den # 0 /\ RandomValue(s1) < localShare
        p0 == IF isLocal THEN applyHomophily(probsBase, cfg.homophilyStrength)
              ELSE probsBase
        seen == Max(1, L.interactions)
        saRatio == Div(L.counts.strong_agree * One, seen * One)
        sdRatio == Div(L.counts.strong_disagree * One, seen * One)
        pc == cfg.polarCoupling
        p1 == [p0 EXCEPT
                 !.strong_disagree = clamp01(p0.strong_disagree + Mul(pc, saRatio)),
                 !.strong_agree = clamp01(p0.strong_agree + Mul(pc, sdRatio))]
        p2 == Renormalize(p1)
        s2 == RngNext(s1)
        flagged == RandomValue(s2) < baitP
        baitFlags == IF flagged THEN L.baitFlags + 1 ELSE L.baitFlags
        reactCount == SumCounts(L.counts) + L.comments
        baitRatio == Div(baitFlags * One, Max(1, reactCount) * One)
        penalty == PenaltyFlag(L.penalty, baitRatio, cfg.baitRatioThresh)
        p3 == IF penalty
              THEN [k \in ReactionSet |-> Mul(p2[k], cfg.baitPenaltyMult)]
              ELSE p2
        commentP == IF penalty THEN Mul(L.commentP, cfg.baitPenaltyMult)
                    ELSE L.commentP
        s3 == RngNext(s2)
        rlab == sampleReaction(p3, RandomValue(s3))
        s4 == RngNext(s3)
        commented == RandomValue(s4) < commentP
    IN  [i |-> i + 1,
         counts |-> IF rlab = "none" THEN L.counts
                    ELSE [L.counts EXCEPT ![rlab] = @ + 1],
         baitFlags |-> baitFlags,
         comments |-> IF commented THEN L.comments + 1 ELSE L.comments,
         interactions |-> L.interactions + 1,
         penalty |-> penalty,
         commentP |-> commentP,
         rng |-> s4,
         imps |-> Append(L.imps,
                    [probs |-> p3, adjusted |-> p2, baitP |-> baitP,
                     commentP |-> commentP, penalty |-> penalty,
                     isLocal |-> isLocal, flagged |-> flagged, rlab |-> rlab,
                     commented |-> commented, localDen |-> den])]

RECURSIVE ImpressionLoop(_, _, _, _, _, _)
ImpressionLoop(reachBudget, u, cfg, probsBase, baitP, L) ==
    IF L.i >= reachBudget THEN L
    ELSE ImpressionLoop(reachBudget, u, cfg, probsBase, baitP,
                        Impression(u, cfg, probsBase, baitP, L))
ZeroAttrSum ==
    [humor |-> 0, insight |-> 0, bait |-> 0, controversy |-> 0, news |-> 0,
     dunk |-> 0, n |-> 0]

\* the accumulators runRounds declares at the top of every round
RoundAcc ==
    [rewardSum |-> 0, baitSum |-> 0, count |-> 0,
     attrSum |-> ZeroAttrSum,
     attrSumByType |-> [t \in TypeSet |-> ZeroAttrSum],
     vibeOnCount |-> 0,
     vibeOnByType |-> [t \in TypeSet |-> 0],
     postsByType |-> [t \in TypeSet |-> 0]]

AddAttrs(sum, attrs) ==
    [humor |-> sum.humor + attrs.humor, insight |-> sum.insight + attrs.insight,
     bait |-> sum.bait + attrs.bait, controversy |-> sum.controversy + attrs.controversy,
     news |-> sum.news + attrs.news, dunk |-> sum.dunk + attrs.dunk,
     n |-> sum.n + 1]

PostRow(roundIndex, u, vibeOn, attrs, counts, baitFlags, comments, reward) ==
    [round |-> roundIndex,
     user_id |-> u.id,
     user_type |-> u.type,
     vibe_on |-> vibeOn,
     followers |-> u.followers,
     humor |-> attrs.humor,
     insight |-> attrs.insight,
     bait |-> attrs.bait,
     controversy |-> attrs.controversy,
     news |-> attrs.news,
     dunk |-> attrs.dunk,
     strong_agree |-> counts.strong_agree,
     agree |-> counts.agree,
     not_sure |-> counts.not_sure,
     disagree |-> counts.disagree,
     strong_disagree |-> counts.strong_disagree,
     bait_flags |-> baitFlags,
     comments |-> comments,
     reward |-> reward]

GenerateEff(cfg, attrs, vibeOn, rng1) ==
    [attrs |-> attrs, vibeOn |-> vibeOn,
     eff |-> applyBoosts(vibeAdjust(attrs, vibeOn, cfg), cfg.boosts),
     rng |-> rng1]

\* Generate deciding the tone by the draw for every type
GenerateToneForAll(u, cfg, rng0) ==
    LET gen == DrawNormals(
                 [j \in 1..Len(ATTRS) |->
                    Mul(Milli(850), u.strategy[ATTRS[j]])
                    + Mul(Milli(150), TYPE_BIAS[u.type][ATTRS[j]])],
                 Milli(120), rng0)
        sv == RngNext(gen.rng)
    IN  GenerateEff(cfg, AttrRecord([j \in 1..Len(ATTRS) |-> clamp01(gen.vals[j])]),
                    RandomValue(sv) < u.vibeStrategy, sv)

\* The body of the loop over this.state.users, in four stages.
\* Generate: the attributes, the tone decision and the effective attributes
\* of one post, [attrs, vibeOn, eff, rng].
Generate(u, cfg, rng0) ==
    LET gen == DrawNormals(
                 [j \in 1..Len(ATTRS) |->
                    Mul(Milli(850), u.strategy[ATTRS[j]])
                    + Mul(Milli(150), TYPE_BIAS[u.type][ATTRS[j]])],
                 Milli(120), rng0)
        never == u.type = "Joker" \/ u.type = "Troll"
        sv == IF never THEN gen.rng ELSE RngNext(gen.rng)
    IN  GenerateEff(cfg, AttrRecord([j \in 1..Len(ATTRS) |-> clamp01(gen.vals[j])]),
                    IF never THEN FALSE ELSE RandomValue(sv) < u.vibeStrategy, sv)

\* Exposure: the reach budget, the post's probabilities and the impression
\* loop, [reach, probsBase, baitP, commentP0, L].
Exposure(u, cfg, g) ==
    LET sr == RngNext(g.rng)
        reachBudget == reachFromAttrs(g.eff, cfg.reachMin, cfg.reachMax,
                                      cfg.followerReachFactor, u.followers, g.vibeOn,
                                      cfg.vibeReachBoost, RandomValue(sr))
        probsBase == reactionProbs(g.eff)
        baitP == baitFlagProb(g.eff, g.vibeOn, cfg.vibeFlagMult)
        commentP0 == commentProb(g.eff, g.vibeOn, cfg.vibeCommentBoost)
    IN  [reach |-> reachBudget, probsBase |-> probsBase, baitP |-> baitP,
         commentP0 |-> commentP0,
         L |-> ImpressionLoop(reachBudget, u, cfg, probsBase, baitP,
                 [i |-> 0, counts |-> ZeroCounts, baitFlags |-> 0, comments |-> 0,
                  interactions |-> 0, penalty |-> FALSE, commentP |-> commentP0,
                  rng |-> sr, imps |-> <<>>])]

\* the reference scale following the reward with no floor of 1
RefUpdateNoFloor(ref0, reward) == Mul(Milli(980), ref0) + Mul(Milli(20), reward)

\* this.state.ref = 0.98 * this.state.ref + 0.02 * Math.max(1, reward)
RefUpdate(ref0, reward) == Mul(Milli(980), ref0) + Mul(Milli(20), Max(One, reward))

\* Settle with learn given the effective attributes
SettleLearnsFromEff(u, cfg, ref0, g, L) ==
    LET reward == engagementScore(L.counts, L.comments, u, cfg.w)
        ref == RefUpdate(ref0, reward)
        u1 == learn(u, g.eff, g.vibeOn, reward, ref)
    IN  [reward |-> reward, ref |-> ref,
         user |-> [u1 EXCEPT !.followers =
                     followerUpdate(u1, L.counts, L.comments, L.baitFlags, cfg,
                                    L.interactions, reward, ref)]]

\* Settle: the reward, the reference scale, learning and the follower
\* update, [reward, ref, user].
Settle(u, cfg, ref0, g, L) ==
    LET reward == engagementScore(L.counts, L.comments, u, cfg.w)
        ref == RefUpdate(ref0, reward)
        u1 == learn(u, g.attrs, g.vibeOn, reward, ref)
    IN  [reward |-> reward, ref |-> ref,
         user |-> [u1 EXCEPT !.followers =
                     followerUpdate(u1, L.counts, L.comments, L.baitFlags, cfg,
                                    L.interactions, reward, ref)]]

\* Commit: the post row, the log, the best post and the round's accumulators.
\* sim is [st, rng, trace]; the result adds the accumulators acc.
\* UserCommit replacing best on reward >= best.reward where the code has >
UserCommitLatestBest(sim, idx, roundIndex, acc, g, e, s) ==
    LET st == sim.st
        u == st.users[idx]
        row == PostRow(roundIndex, s.user, g.vibeOn, g.attrs, e.L.counts,
                       e.L.baitFlags, e.L.comments, s.reward)
    IN  [st |-> [st EXCEPT !.users[idx] = s.user,
                           !.ref = s.ref,
                           !.rows = Append(st.rows, row),
                           !.best = IF IsNull(st.best) THEN row
                                    ELSE IF s.reward >= st.best.reward THEN row
                                    ELSE st.best],
         rng |-> e.L.rng,
         trace |-> Append(sim.trace,
                     [round |-> roundIndex, user_id |-> u.id, user_type |-> u.type,
                      followersBefore |-> u.followers, vibeOn |-> g.vibeOn,
                      attrs |-> g.attrs, eff |-> g.eff, reach |-> e.reach,
                      baitP |-> e.baitP, commentP0 |-> e.commentP0,
                      probsBase |-> e.probsBase, refBefore |-> st.ref,
                      refUsed |-> s.ref, imps |-> e.L.imps,
                      userBefore |-> u, userAfter |-> s.user, row |-> row]),
         acc |-> [rewardSum |-> acc.rewardSum + s.reward,
                  baitSum |-> acc.baitSum + e.L.baitFlags,
                  count |-> acc.count + 1,
                  attrSum |-> AddAttrs(acc.attrSum, g.attrs),
                  attrSumByType |-> [acc.attrSumByType EXCEPT
                                       ![u.type] = AddAttrs(@, g.attrs)],
                  vibeOnCount |-> IF g.vibeOn THEN acc.vibeOnCount + 1
                                  ELSE acc.vibeOnCount,
                  vibeOnByType |-> IF g.vibeOn
                                   THEN [acc.vibeOnByType EXCEPT ![u.type] = @ + 1]
                                   ELSE acc.vibeOnByType,
                  postsByType |-> [acc.postsByType EXCEPT ![u.type] = @ + 1]]]

UserCommit(sim, idx, roundIndex, acc, g, e, s) ==
    LET st == sim.st
        u == st.users[idx]
        row == PostRow(roundIndex, s.user, g.vibeOn, g.attrs, e.L.counts,
                       e.L.baitFlags, e.L.comments, s.reward)
    IN  [st |-> [st EXCEPT !.users[idx] = s.user,
                           !.ref = s.ref,
                           !.rows = Append(st.rows, row),
                           !.best = IF IsNull(st.best) THEN row
                                    ELSE IF s.reward > st.best.reward THEN row
                                    ELSE st.best],
         rng |-> e.L.rng,
         trace |-> Append(sim.trace,
                     [round |-> roundIndex, user_id |-> u.id, user_type |-> u.type,
                      followersBefore |-> u.followers, vibeOn |-> g.vibeOn,
                      attrs |-> g.attrs, eff |-> g.eff, reach |-> e.reach,
                      baitP |-> e.baitP, commentP0 |-> e.commentP0,
                      probsBase |-> e.probsBase, refBefore |-> st.ref,
                      refUsed |-> s.ref, imps |-> e.L.imps,
                      userBefore |-> u, userAfter |-> s.user, row |-> row]),
         acc |-> [rewardSum |-> acc.rewardSum + s.reward,
                  baitSum |-> acc.baitSum + e.L.baitFlags,
                  count |-> acc.count + 1,
                  attrSum |-> AddAttrs(acc.attrSum, g.attrs),
                  attrSumByType |-> [acc.attrSumByType EXCEPT
                                       ![u.type] = AddAttrs(@, g.attrs)],
                  vibeOnCount |-> IF g.vibeOn THEN acc.vibeOnCount + 1
                                  ELSE acc.vibeOnCount,
                  vibeOnByType |-> IF g.vibeOn
                                   THEN [acc.vibeOnByType EXCEPT ![u.type] = @ + 1]
                                   ELSE acc.vibeOnByType,
                  postsByType |-> [acc.postsByType EXCEPT ![u.type] = @ + 1]]]

UserSettle(sim, idx, roundIndex, cfg, acc, g, e) ==
    UserCommit(sim, idx, roundIndex, acc, g, e,
               Settle(sim.st.users[idx], cfg, sim.st.ref, g, e.L))

UserExpose(sim, idx, roundIndex, cfg, acc, g) ==
    UserSettle(sim, idx, roundIndex, cfg, acc, g,
               Exposure(sim.st.users[idx], cfg, g))

UserStep(sim, idx, roundIndex, cfg, acc) ==
    UserExpose(sim, idx, roundIndex, cfg, acc,
               Generate(sim.st.users[idx], cfg, sim.rng))

RECURSIVE UserLoop(_, _, _, _)
UserLoop(x, idx, roundIndex, cfg) ==
    IF idx > Len(x.st.users) THEN x
    ELSE UserLoop(UserStep(x, idx, roundIndex, cfg, x.acc), idx + 1, roundIndex, cfg)

AttrMeans(sum) ==
    [j \in 1..Len(ATTRS) |-> IF sum.n > 0 THEN sum[ATTRS[j]] \div sum.n ELSE 0]

FollowersOfType(users, t) ==
    SumSeq([j \in 1..Len(users) |-> IF users[j].type = t THEN users[j].followers ELSE 0])

CountOfType(users, t) ==
    SumSeq([j \in 1..Len(users) |-> IF users[j].type = t THEN 1 ELSE 0])

\* The series appended at the end of one round
AppendSeries(st, acc) ==
    [st EXCEPT
       !.seriesReward = Append(@, acc.rewardSum \div Max(1, acc.count)),
       !.seriesBait = Append(@, (acc.baitSum * One) \div Max(1, acc.count)),
       !.seriesAttrs = Append(@, [j \in 1..Len(ATTRS) |->
                                    acc.attrSum[ATTRS[j]] \div Max(1, acc.attrSum.n)]),
       !.seriesFollowersByType =
           [t \in TypeSet |->
              Append(st.seriesFollowersByType[t],
                     (FollowersOfType(st.users, t) * One)
                        \div Max(1, CountOfType(st.users, t)))],
       !.seriesFollowersAll =
           Append(@, SumSeq([j \in 1..Len(USER_TYPES) |->
                               FollowersOfType(st.users, USER_TYPES[j])])),
       !.seriesVibeOverall =
           Append(@, (acc.vibeOnCount * One) \div Max(1, Len(st.users))),
       !.seriesVibeByType =
           [t \in TypeSet |->
              Append(st.seriesVibeByType[t],
                     IF acc.postsByType[t] > 0
                     THEN (acc.vibeOnByType[t] * One) \div acc.postsByType[t]
                     ELSE 0)],
       !.seriesAttrsByType =
           [t \in TypeSet |->
              Append(st.seriesAttrsByType[t], AttrMeans(acc.attrSumByType[t]))]]

\* one iteration of the loop over r; R is the loop state [r, st, rng, trace]
\* and x what the loop over the users left
RoundEnd(R, x) ==
    [r |-> R.r + 1, st |-> AppendSeries(x.st, x.acc), rng |-> x.rng,
     trace |-> x.trace]

RoundStep(R, cfg) ==
    RoundEnd(R, UserLoop([st |-> R.st, rng |-> R.rng, trace |-> R.trace,
                          acc |-> RoundAcc], 1, R.st.roundsDone + R.r, cfg))

\* the round loop running while r <= n where the code runs while r < n
RECURSIVE RoundLoopInclusive(_, _, _)
RoundLoopInclusive(R, n, cfg) ==
    IF R.r > n THEN R
    ELSE RoundLoopInclusive(RoundStep(R, cfg), n, cfg)

RECURSIVE RoundLoop(_, _, _)
RoundLoop(R, n, cfg) ==
    IF R.r >= n THEN R
    ELSE RoundLoop(RoundStep(R, cfg), n, cfg)

\* the statement after the loop
\* runRounds' last statement assigning n where the code adds it
RunEndAssign(n, x) ==
    [st |-> [x.st EXCEPT !.roundsDone = n], rng |-> x.rng, trace |-> x.trace]

RunEnd(n, x) ==
    [st |-> [x.st EXCEPT !.roundsDone = @ + n], rng |-> x.rng, trace |-> x.trace]

\* sim and the result are [st, rng, trace]
runRounds(n, cfg, sim) ==
    RunEnd(n, RoundLoop([r |-> 0, st |-> sim.st, rng |-> sim.rng,
                         trace |-> sim.trace], n, cfg))

\* ------------------------------------------------------------------ state
VARIABLES
    state,       \* this.state (SimulationState)
    lastConfig,  \* this.lastConfig
    rng,         \* the state of Math.random
    thrown,      \* the error the last call threw, "none" if it returned
    alerted,     \* whether the last call raised the alert dialog
    csv,         \* the file the last call offered for download, <<>> if none
    trace,       \* what runRounds used post by post in the last call
    lastOp,      \* the last call and its argument
    ext,         \* the arguments of the runMoreRounds calls since the last start
    startRng,    \* the state of Math.random when the last start was called
    reordered,   \* whether a render has moved rows of the log since the last start
    callerConfig, \* the caller's configuration object, as the caller has it now
    startConfig  \* the configuration as it was when the last start was called

vars == <<state, lastConfig, rng, thrown, alerted, csv, trace, lastOp, ext, startRng,
          reordered, callerConfig, startConfig>>

ErrNoSimulation == "No simulation running. Start a new simulation first."
ErrNoConfig == "No configuration stored. Cannot extend simulation."

EmptySeriesByType == [t \in TypeSet |-> <<>>]

\* the state the constructor builds, also what startSimulation resets to
FreshState(users) ==
    [users |-> users,
     rows |-> <<>>,
     ref |-> 100 * One,
     roundsDone |-> 0,
     seriesReward |-> <<>>,
     seriesBait |-> <<>>,
     seriesAttrs |-> <<>>,
     seriesAttrsByType |-> EmptySeriesByType,
     seriesFollowersByType |-> EmptySeriesByType,
     seriesFollowersAll |-> <<>>,
     seriesVibeOverall |-> <<>>,
     seriesVibeByType |-> EmptySeriesByType,
     best |-> Null]

\* ---------------------------------------------------------- configurations
\* The page's default configuration, with a small population, few rounds and
\* a small reach so that a run stays small.
DefaultConfig ==
    [usersN |-> 2, rounds |-> 1, learnRate |-> Milli(150),
     baitRatioThresh |-> Milli(100), baitPenaltyMult |-> Milli(200),
     reachMin |-> 1, reachMax |-> 4,
     vibeFlagMult |-> Milli(600), polarCoupling |-> Milli(120),
     vibeHumorPenalty |-> Milli(150), vibeControversyPenalty |-> Milli(250),
     vibeInsightBoost |-> Milli(200), vibeCommentBoost |-> Milli(200),
     vibeReachBoost |-> Milli(100),
     followGainThresh |-> Milli(1300), followersMean |-> 200,
     followerReachFactor |-> Milli(150), globalAudienceK |-> 4000,
     homophilyStrength |-> Milli(350), viralityThreshold |-> 1500,
     localFloor |-> Milli(200), followGainRate |-> Milli(250),
     followLossRate |-> Milli(300),
     w |-> [strong_agree |-> One, agree |-> Milli(800), not_sure |-> Milli(200),
            disagree |-> 0, strong_disagree |-> 0 - Milli(600)],
     boosts |-> [k \in AttrSet |-> 0],
     mix |-> [Normal |-> 55, Joker |-> 10, Troll |-> 10, Intellectual |-> 15,
              Journalist |-> 10],
     baseVibeProb |-> Milli(50), maWindow |-> 10]

OnlyType(t) == [x \in TypeSet |-> IF x = t THEN 100 ELSE 0]

\* The configurations start is called with
Configs ==
    { DefaultConfig,
      [DefaultConfig EXCEPT !.rounds = 2, !.usersN = 1],
      [DefaultConfig EXCEPT !.rounds = 0],
      [DefaultConfig EXCEPT !.usersN = 0],
      \* trolls with few followers, a close audience, cheap follower gain, a
      \* heavy follower loss and early virality
      [DefaultConfig EXCEPT !.mix = OnlyType("Troll"), !.followersMean = 2,
                            !.globalAudienceK = 3, !.followGainThresh = 0,
                            !.followLossRate = 3 * One, !.viralityThreshold = 2,
                            !.homophilyStrength = One, !.polarCoupling = One],
      \* fast learners, boosted content, bait penalty switched off
      [DefaultConfig EXCEPT !.mix = OnlyType("Journalist"), !.learnRate = One,
                            !.baitRatioThresh = One, !.baitPenaltyMult = One,
                            !.boosts = [k \in AttrSet |-> Milli(500)],
                            !.baseVibeProb = Milli(900)] }

ExtendArgs == {0 - 1, 0, 1}

\* ---------------------------------------------------------------- methods
\* the reset of startSimulation without its assignment to ref
ResetStateKeepsRef(st, users) ==
    [st EXCEPT !.users = users,
               !.rows = <<>>,
               !.roundsDone = 0,
               !.seriesReward = <<>>,
               !.seriesBait = <<>>,
               !.seriesAttrs = <<>>,
               !.seriesAttrsByType = EmptySeriesByType,
               !.seriesFollowersByType = EmptySeriesByType,
               !.seriesFollowersAll = <<>>,
               !.seriesVibeOverall = <<>>,
               !.seriesVibeByType = EmptySeriesByType,
               !.best = Null]

\* the assignments startSimulation makes between buildUsers and runRounds
ResetState(st, users) ==
    [st EXCEPT !.users = users,
               !.rows = <<>>,
               !.ref = 100 * One,
               !.roundsDone = 0,
               !.seriesReward = <<>>,
               !.seriesBait = <<>>,
               !.seriesAttrs = <<>>,
               !.seriesAttrsByType = EmptySeriesByType,
               !.seriesFollowersByType = EmptySeriesByType,
               !.seriesFollowersAll = <<>>,
               !.seriesVibeOverall = <<>>,
               !.seriesVibeByType = EmptySeriesByType,
               !.best = Null]

\* startSimulation after buildUsers returned b: the reset and the rounds
StartRun(cfg, st, b) ==
    runRounds(cfg.rounds, cfg,
              [st |-> ResetState(st, b.users), rng |-> b.rng, trace |-> <<>>])

\* startSimulation on the state st: [st, rng, trace]; the caller stores cfg
\* in lastConfig
startSimulation(cfg, st, rng0) ==
    StartRun(cfg, st,
             buildUsers(cfg.usersN, cfg.mix, cfg.learnRate, cfg.followersMean,
                        cfg.baseVibeProb, rng0))

\* runMoreRounds resetting the log and the series as startSimulation does
runMoreRoundsFromReset(n, st, cfg, rng0) ==
    IF Len(st.users) = 0
    THEN [thrown |-> ErrNoSimulation,
          sim |-> [st |-> st, rng |-> rng0, trace |-> <<>>]]
    ELSE IF IsNull(cfg)
    THEN [thrown |-> ErrNoConfig,
          sim |-> [st |-> st, rng |-> rng0, trace |-> <<>>]]
    ELSE [thrown |-> "none",
          sim |-> runRounds(n, cfg, [st |-> ResetState(st, st.users),
                                     rng |-> rng0, trace |-> <<>>])]

\* runMoreRounds without its test of users.length
runMoreRoundsUnguarded(n, st, cfg, rng0) ==
    IF IsNull(cfg)
    THEN [thrown |-> "none",
          sim |-> [st |-> [st EXCEPT !.roundsDone = @ + n], rng |-> rng0,
                   trace |-> <<>>]]
    ELSE [thrown |-> "none",
          sim |-> runRounds(n, cfg, [st |-> st, rng |-> rng0, trace |-> <<>>])]

\* runMoreRounds: [thrown, sim] with sim = [st, rng, trace]; a throw leaves
\* everything as it was
runMoreRounds(n, st, cfg, rng0) ==
    IF Len(st.users) = 0
    THEN [thrown |-> ErrNoSimulation,
          sim |-> [st |-> st, rng |-> rng0, trace |-> <<>>]]
    ELSE IF IsNull(cfg)
    THEN [thrown |-> ErrNoConfig,
          sim |-> [st |-> st, rng |-> rng0, trace |-> <<>>]]
    ELSE [thrown |-> "none",
          sim |-> runRounds(n, cfg, [st |-> st, rng |-> rng0, trace |-> <<>>])]

\* Object.keys of a post row, in insertion order
ROW_KEYS ==
    <<"round", "user_id", "user_type", "vibe_on", "followers",
      "humor", "insight", "bait", "controversy", "news", "dunk",
      "strong_agree", "agree", "not_sure", "disagree", "strong_disagree",
      "bait_flags", "comments", "reward">>

\* the fields joined without quoting the strings
CsvFieldUnquoted(k, v) == v

\* typeof v === "string" holds of the user_type value only
CsvField(k, v) == IF k = "user_type" THEN "\"" \o v \o "\"" ELSE v

\* the csvContent lines before the join: the header, then one line per row
CsvLines(rows) ==
    <<ROW_KEYS>> \o
    [i \in 1..Len(rows) |->
        [j \in 1..Len(ROW_KEYS) |-> CsvField(ROW_KEYS[j], rows[i][ROW_KEYS[j]])]]

\* exportCsv testing roundsDone where the code tests rows.length
exportCsvByRounds(st) ==
    IF st.roundsDone = 0
    THEN [alerted |-> TRUE, csv |-> <<>>]
    ELSE [alerted |-> FALSE, csv |-> CsvLines(st.rows)]

\* exportCsv: [alerted, csv]; csv is the downloaded content, <<>> when the
\* method returns before building it
exportCsv(st) ==
    IF Len(st.rows) = 0
    THEN [alerted |-> TRUE, csv |-> <<>>]
    ELSE [alerted |-> FALSE, csv |-> CsvLines(st.rows)]

\* getState, and the value startSimulation and runMoreRounds return: a shallow
\* copy of this.state, whose rows is the same array as the engine's
getState(st) == st

\* Array.prototype.sort((a, b) => b.reward - a.reward) as a stable insertion:
\* row goes behind every row of sorted whose reward is >= its own
RECURSIVE InsertByReward(_, _, _)
InsertByReward(sorted, row, i) ==
    IF i > Len(sorted) THEN Append(sorted, row)
    ELSE IF sorted[i].reward < row.reward
    THEN SubSeq(sorted, 1, i - 1) \o <<row>> \o SubSeq(sorted, i, Len(sorted))
    ELSE InsertByReward(sorted, row, i + 1)

RECURSIVE SortLoop(_, _, _)
SortLoop(rows, sorted, i) ==
    IF i > Len(rows) THEN sorted
    ELSE SortLoop(rows, InsertByReward(sorted, rows[i], 1), i + 1)

\* simulationState.rows.sort(...) of the top-posts list
SortByRewardDesc(rows) == SortLoop(rows, <<>>, 1)

\* ---------------------------------------------------------------- actions
Init ==
    /\ state = FreshState(<<>>)
    /\ lastConfig = Null
    /\ rng \in 0..(RngM - 1)
    /\ thrown = "none"
    /\ alerted = FALSE
    /\ csv = <<>>
    /\ trace = <<>>
    /\ lastOp = [op |-> "init", arg |-> 0, discarded |-> 0]
    /\ ext = <<>>
    /\ startRng = rng
    /\ reordered = FALSE
    /\ callerConfig = Null
    /\ startConfig = Null

Start ==
    \E cfg \in Configs :
        \E x \in {startSimulation(cfg, state, rng)} :
            /\ lastConfig' = cfg
            /\ state' = x.st
            /\ rng' = x.rng
            /\ trace' = x.trace
            /\ thrown' = "none"
            /\ alerted' = FALSE
            /\ csv' = <<>>
            /\ lastOp' = [op |-> "start", arg |-> cfg.rounds,
                      discarded |-> Len(state.rows)]
            /\ ext' = <<>>
            /\ startRng' = rng
            /\ reordered' = FALSE
            /\ callerConfig' = cfg
            /\ startConfig' = cfg

Extend ==
    \E n \in ExtendArgs :
        /\ Len(ext) < MaxExtends
        /\ state.roundsDone + n <= MaxRounds
        /\ \E x \in {runMoreRounds(n, state, lastConfig, rng)} :
               /\ thrown' = x.thrown
               /\ state' = x.sim.st
               /\ rng' = x.sim.rng
               /\ trace' = x.sim.trace
               /\ alerted' = FALSE
               /\ csv' = <<>>
               /\ lastOp' = [op |-> "extend", arg |-> n, discarded |-> 0]
               /\ ext' = Append(ext, n)
               /\ UNCHANGED <<lastConfig, startRng, reordered, callerConfig, startConfig>>

Export ==
    /\ alerted' = exportCsv(state).alerted
    /\ csv' = exportCsv(state).csv
    /\ thrown' = "none"
    /\ trace' = <<>>
    /\ lastOp' = [op |-> "export", arg |-> 0, discarded |-> 0]
    /\ UNCHANGED <<state, lastConfig, rng, ext, startRng, reordered, callerConfig,
                   startConfig>>

\* ResultsPanel rendering the snapshot the engine returned: the snapshot is a
\* shallow copy, so its rows array is the engine's, and the top-posts list
\* sorts it in place
Render ==
    /\ Len(state.rows) > 0
    /\ state' = [state EXCEPT !.rows = SortByRewardDesc(getState(state).rows)]
    /\ reordered' = (reordered \/ state'.rows # state.rows)
    /\ thrown' = "none"
    /\ alerted' = FALSE
    /\ csv' = <<>>
    /\ trace' = <<>>
    /\ lastOp' = [op |-> "render", arg |-> 0, discarded |-> 0]
    /\ UNCHANGED <<lastConfig, rng, ext, startRng, callerConfig, startConfig>>

Next == Start \/ Extend \/ Export \/ Render

Spec == Init /\ [][Next]_vars

\* ------------------------------------------------- the engine and its caller
\* The engine as a caller of its API drives it: startSimulation keeps
\* { ...cfg }, a copy of the top-level fields of the caller's object whose mix,
\* w and boosts are the caller's own records.

\* a configuration with no global audience and a population without followers
ZeroAudienceConfig ==
    [DefaultConfig EXCEPT !.usersN = 1, !.followersMean = 0, !.globalAudienceK = 0]

CallerConfigs == {DefaultConfig, ZeroAudienceConfig}

StartByCaller ==
    \E cfg \in CallerConfigs :
        \E x \in {startSimulation(cfg, state, rng)} :
            /\ lastConfig' = cfg
            /\ state' = x.st
            /\ rng' = x.rng
            /\ trace' = x.trace
            /\ thrown' = "none"
            /\ alerted' = FALSE
            /\ csv' = <<>>
            /\ lastOp' = [op |-> "start", arg |-> cfg.rounds,
                      discarded |-> Len(state.rows)]
            /\ ext' = <<>>
            /\ startRng' = rng
            /\ reordered' = FALSE
            /\ callerConfig' = cfg
            /\ startConfig' = cfg

\* the caller changes a top-level field of its configuration (the form's
\* updateLocalConfig, or an assignment to a field of the object it passed):
\* lastConfig has its own copy of the field
EditConfig ==
    /\ ~IsNull(callerConfig)
    /\ callerConfig.baitPenaltyMult # One
    /\ callerConfig' = [callerConfig EXCEPT !.baitPenaltyMult = One]
    /\ lastOp' = [op |-> "edit", arg |-> 0, discarded |-> 0]
    /\ thrown' = "none"
    /\ alerted' = FALSE
    /\ csv' = <<>>
    /\ trace' = <<>>
    /\ UNCHANGED <<state, lastConfig, rng, ext, startRng, reordered, startConfig>>

\* the caller assigns into the boosts record of the object it passed:
\* lastConfig.boosts is that same record
MutateNested ==
    /\ ~IsNull(callerConfig)
    /\ callerConfig.boosts.humor # Milli(500)
    /\ callerConfig' = [callerConfig EXCEPT !.boosts.humor = Milli(500)]
    /\ lastConfig' = [lastConfig EXCEPT !.boosts.humor = Milli(500)]
    /\ lastOp' = [op |-> "mutate", arg |-> 0, discarded |-> 0]
    /\ thrown' = "none"
    /\ alerted' = FALSE
    /\ csv' = <<>>
    /\ trace' = <<>>
    /\ UNCHANGED <<state, rng, ext, startRng, reordered, startConfig>>

NextCaller == StartByCaller \/ Extend \/ EditConfig \/ MutateNested

SpecCaller == Init /\ [][NextCaller]_vars

\* ----------------------------------------------------------------- claims

\* every extend argument since the last start was >= 0
ExtendsNonNegative == \A i \in DOMAIN ext : ext[i] >= 0

\* C1: runMoreRounds on an engine on which startSimulation was never called
\* (no users) throws the "no simulation" error, and the state and the random
\* generator after the call are exactly what they were before it.
C1_ExtendBeforeStartFails ==
    [][(lastOp'.op = "extend" /\ IsNull(lastConfig))
         => /\ Len(state.users) = 0
            /\ thrown' = ErrNoSimulation
            /\ state' = state
            /\ rng' = rng
            /\ lastConfig' = lastConfig]_vars

C1_Witness ==
    /\ lastOp.op = "extend"
    /\ lastOp.arg = 1
    /\ IsNull(lastConfig)
    /\ thrown = ErrNoSimulation
    /\ state = FreshState(<<>>)

\* C2: exportCsv with an empty post log raises the alert, produces no CSV and
\* changes nothing in the simulation; with a non-empty log it raises no alert
\* and produces CSV content, again changing nothing.
C2_ExportEmptyLog ==
    [][lastOp'.op = "export"
         => /\ state' = state
            /\ lastConfig' = lastConfig
            /\ rng' = rng
            /\ Len(state.rows) = 0 => (alerted' /\ csv' = <<>>)
            /\ Len(state.rows) > 0 => (~alerted' /\ Len(csv') = Len(state.rows) + 1)]_vars

\* an export with an empty log after a simulation ran (no users, one round)
C2_Witness ==
    /\ lastOp.op = "export"
    /\ alerted
    /\ csv = <<>>
    /\ Len(state.rows) = 0
    /\ state.roundsDone = 1

\* C3: after startSimulation with N >= 1 users and R >= 0 rounds followed by
\* runMoreRounds calls with arguments n1..nk >= 0, roundsDone = R + n1 + .. + nk,
\* the log holds N * roundsDone rows, and every (round, user) pair with
\* round < roundsDone and user < N has exactly one row.
C3_RowsAndRounds ==
    (~IsNull(lastConfig) /\ lastConfig.usersN >= 1 /\ lastConfig.rounds >= 0
       /\ ExtendsNonNegative)
    => /\ state.roundsDone = lastConfig.rounds + SumSeq(ext)
       /\ Len(state.rows) = lastConfig.usersN * state.roundsDone
       /\ \A r \in 0..(state.roundsDone - 1) : \A a \in 0..(lastConfig.usersN - 1) :
            Cardinality({i \in DOMAIN state.rows :
                           state.rows[i].round = r /\ state.rows[i].user_id = a}) = 1

C3_Witness ==
    /\ ~IsNull(lastConfig)
    /\ lastConfig.usersN = 2
    /\ lastConfig.rounds = 1
    /\ ext = <<1, 1>>
    /\ state.roundsDone = 3
    /\ Len(state.rows) = 6

\* C4: startSimulation with a rounds followed by runMoreRounds with arguments
\* >= 0 (and no render of the results panel moving rows in between) leaves the
\* state and the random generator that one startSimulation with the summed
\* number of rounds leaves, from the same generator state.
C4_StartThenExtendIsOneStart ==
    (~IsNull(lastConfig) /\ lastOp.op = "extend" /\ ExtendsNonNegative /\ ~reordered)
    => \E one \in {startSimulation(
                     [lastConfig EXCEPT !.rounds = lastConfig.rounds + SumSeq(ext)],
                     FreshState(<<>>), startRng)} :
          state = one.st /\ rng = one.rng

\* C5: runMoreRounds(0) changes nothing in the state and consumes no random
\* draw, whether it throws or not.
C5_ExtendZeroIsNoOp ==
    [][(lastOp'.op = "extend" /\ lastOp'.arg = 0)
         => /\ state' = state
            /\ rng' = rng
            /\ trace' = <<>>
            /\ lastConfig' = lastConfig]_vars

\* runMoreRounds(0) on a running simulation with posts in its log
C5_Witness ==
    /\ lastOp.op = "extend"
    /\ lastOp.arg = 0
    /\ thrown = "none"
    /\ Len(state.users) = 2
    /\ Len(state.rows) >= 2

\* the reference scale recomputed from the rewards of the log
RECURSIVE RefFromLog(_, _, _)
RefFromLog(ref, rows, i) ==
    IF i > Len(rows) THEN ref
    ELSE RefFromLog(Mul(Milli(980), ref) + Mul(Milli(20), Max(One, rows[i].reward)),
                    rows, i + 1)

\* every round series of st has length n
SeriesLengths(st, n) ==
    /\ Len(st.seriesReward) = n
    /\ Len(st.seriesBait) = n
    /\ Len(st.seriesAttrs) = n
    /\ Len(st.seriesFollowersAll) = n
    /\ Len(st.seriesVibeOverall) = n
    /\ \A t \in TypeSet :
         /\ Len(st.seriesAttrsByType[t]) = n
         /\ Len(st.seriesFollowersByType[t]) = n
         /\ Len(st.seriesVibeByType[t]) = n

\* sequence a is a prefix of sequence b
IsPrefix(a, b) == Len(a) <= Len(b) /\ SubSeq(b, 1, Len(a)) = a

\* every round series of st is a prefix of the same series of st2
SeriesPrefix(st, st2) ==
    /\ IsPrefix(st.seriesReward, st2.seriesReward)
    /\ IsPrefix(st.seriesBait, st2.seriesBait)
    /\ IsPrefix(st.seriesAttrs, st2.seriesAttrs)
    /\ IsPrefix(st.seriesFollowersAll, st2.seriesFollowersAll)
    /\ IsPrefix(st.seriesVibeOverall, st2.seriesVibeOverall)
    /\ \A t \in TypeSet :
         /\ IsPrefix(st.seriesAttrsByType[t], st2.seriesAttrsByType[t])
         /\ IsPrefix(st.seriesFollowersByType[t], st2.seriesFollowersByType[t])
         /\ IsPrefix(st.seriesVibeByType[t], st2.seriesVibeByType[t])

\* C6: right after startSimulation(cfg), in whatever state it was called:
\* roundsDone = cfg.rounds; the log holds only rows made by this call, one per
\* user and round, with rounds 0..cfg.rounds-1; every series has cfg.rounds
\* entries; best is null or a row of the log; the users are newly built (ids
\* 0..N-1, learning rate of cfg); and ref is what the rewards of the log give
\* when started from 100.
C6_StartDiscardsEarlierRun ==
    lastOp.op = "start"
    => /\ state.roundsDone = lastConfig.rounds
       /\ Len(state.users) = Max(0, lastConfig.usersN)
       /\ \A i \in DOMAIN state.users :
            /\ state.users[i].id = i - 1
            /\ state.users[i].learnRate = lastConfig.learnRate
       /\ Len(state.rows) = Len(state.users) * Max(0, lastConfig.rounds)
       /\ Len(trace) = Len(state.rows)
       /\ \A i \in DOMAIN state.rows :
            /\ state.rows[i].round \in 0..(lastConfig.rounds - 1)
            /\ state.rows[i].round = trace[i].round
            /\ state.rows[i].user_id = trace[i].user_id
       /\ SeriesLengths(state, Max(0, lastConfig.rounds))
       /\ IsNull(state.best) = (Len(state.rows) = 0)
       /\ IsNull(state.best) \/ \E i \in DOMAIN state.rows : state.rows[i] = state.best
       /\ state.ref = RefFromLog(100 * One, state.rows, 1)

\* a start that discarded the four rows of an earlier run
C6_Witness ==
    /\ lastOp.op = "start"
    /\ lastOp.discarded = 4
    /\ lastConfig.rounds = 2
    /\ Len(state.rows) = 2
    /\ state.ref # 100 * One

\* C7: a runMoreRounds call keeps the number, order, id, type, wReact and
\* learnRate of the users, keeps the old log and every old series as a prefix of
\* the new one, appends only rows of rounds >= the old roundsDone, and its first
\* post starts from the followers, strategy and vibeStrategy the user had.
C7_ExtendKeepsAndAppends ==
    [][lastOp'.op = "extend"
         => /\ Len(state'.users) = Len(state.users)
            /\ \A i \in DOMAIN state.users :
                 /\ state'.users[i].id = state.users[i].id
                 /\ state'.users[i].type = state.users[i].type
                 /\ state'.users[i].wReact = state.users[i].wReact
                 /\ state'.users[i].learnRate = state.users[i].learnRate
            /\ IsPrefix(state.rows, state'.rows)
            /\ SeriesPrefix(state, state')
            /\ \A i \in (Len(state.rows) + 1)..Len(state'.rows) :
                 state'.rows[i].round >= state.roundsDone
            /\ Len(state'.rows) = Len(state.rows) + Len(trace')
            /\ trace' # <<>> => trace'[1].followersBefore = state.users[1].followers
            /\ trace' = <<>> => state'.users = state.users]_vars

C7_Witness ==
    /\ lastOp.op = "extend"
    /\ lastOp.arg = 1
    /\ thrown = "none"
    /\ Len(state.users) = 2
    /\ state.roundsDone = 2
    /\ Len(state.rows) = 4
    /\ Len(trace) = 2

\* C8: every user's followers and the followers of every row are >= 0
\* (followers are integers in the model as in the code: both assignments to
\* the field go through Math.round).
C8_FollowersNonNegative ==
    /\ \A i \in DOMAIN state.users : state.users[i].followers >= 0
    /\ \A i \in DOMAIN state.rows : state.rows[i].followers >= 0

\* a post after which a user who had followers has none
C8_Witness ==
    \E k \in DOMAIN trace :
        /\ trace[k].followersBefore > 0
        /\ state.rows[Len(state.rows) - Len(trace) + k].followers = 0

\* x is a probability in fixed point
InUnit(x) == 0 <= x /\ x <= One

\* C9: every user's six strategy components, vibeStrategy and wReact lie in
\* [0,1], and so do the bait-flag probability and the comment probability of
\* every impression (all configurations have baitPenaltyMult in [0,1]).
C9_ProbabilityFieldsInUnit ==
    /\ \A i \in DOMAIN state.users :
         /\ \A a \in AttrSet : InUnit(state.users[i].strategy[a])
         /\ InUnit(state.users[i].vibeStrategy)
         /\ InUnit(state.users[i].wReact)
    /\ \A k \in DOMAIN trace :
         /\ InUnit(trace[k].baitP)
         /\ InUnit(trace[k].commentP0)
         /\ \A j \in DOMAIN trace[k].imps :
              /\ InUnit(trace[k].imps[j].baitP)
              /\ InUnit(trace[k].imps[j].commentP)

\* after two rounds of learning, a post with a penalised impression whose
\* bait-flag and comment probabilities are positive
C9_Witness ==
    /\ state.roundsDone >= 2
    /\ Len(state.users) >= 1
    /\ \E k \in DOMAIN trace : \E j \in DOMAIN trace[k].imps :
         /\ trace[k].imps[j].penalty
         /\ trace[k].imps[j].commentP > 0
         /\ trace[k].imps[j].baitP > 0

\* the sum of the five reaction probabilities
ProbSum(p) == p.strong_agree + p.agree + p.not_sure + p.disagree + p.strong_disagree

\* C10: for every impression the five probabilities given to sampleReaction
\* are each >= 0 and sum to at most 1 (all configurations have
\* homophilyStrength in [0,1], polarCoupling >= 0, baitPenaltyMult in [0,1]).
C10_ReactionProbsSubStochastic ==
    \A k \in DOMAIN trace : \A j \in DOMAIN trace[k].imps :
        /\ \A r \in ReactionSet : trace[k].imps[j].probs[r] >= 0
        /\ ProbSum(trace[k].imps[j].probs) <= One

\* a local, penalised impression later than the first one, and an unpenalised
\* one whose probabilities sum to more than 0.99
C10_Witness ==
    /\ \E k \in DOMAIN trace : \E j \in DOMAIN trace[k].imps :
         j > 1 /\ trace[k].imps[j].isLocal /\ trace[k].imps[j].penalty
    /\ \E k \in DOMAIN trace : \E j \in DOMAIN trace[k].imps :
         ~trace[k].imps[j].penalty /\ ProbSum(trace[k].imps[j].probs) > Milli(990)

\* C11: every row of a Joker or a Troll has vibe_on false, and every entry of
\* the Joker and Troll series of seriesVibeByType is 0.
C11_JokerTrollNeverVibe ==
    /\ \A i \in DOMAIN state.rows :
         state.rows[i].user_type \in {"Joker", "Troll"} => ~state.rows[i].vibe_on
    /\ \A t \in {"Joker", "Troll"} : \A r \in DOMAIN state.seriesVibeByType[t] :
         state.seriesVibeByType[t][r] = 0

\* a Troll with a positive vibeStrategy has posted in two rounds
C11_Witness ==
    /\ state.roundsDone >= 2
    /\ \E i \in DOMAIN state.users :
         /\ state.users[i].type = "Troll"
         /\ state.users[i].vibeStrategy > Milli(300)
         /\ \E k \in DOMAIN state.rows : state.rows[k].user_id = state.users[i].id

\* C12: best is null exactly when the log is empty; otherwise best is the row
\* of the log with the greatest reward, the earliest one among equals.
C12_BestIsEarliestMaximum ==
    /\ IsNull(state.best) = (Len(state.rows) = 0)
    /\ ~IsNull(state.best)
       => \E i \in DOMAIN state.rows :
             /\ state.rows[i] = state.best
             /\ \A j \in DOMAIN state.rows :
                  /\ state.rows[j].reward <= state.best.reward
                  /\ j < i => state.rows[j].reward < state.best.reward

\* a log over two rounds in which a later row ties with best, and best is
\* not the first row
C12_Witness ==
    /\ state.roundsDone >= 2
    /\ ~IsNull(state.best)
    /\ state.rows[1] # state.best
    /\ \E j \in DOMAIN state.rows :
         /\ state.rows[j] # state.best
         /\ state.rows[j].reward = state.best.reward

\* C13: when some weight of the mix is positive, every user built by
\* startSimulation has a type whose weight in the mix is positive.
C13_TypesHavePositiveWeight ==
    (~IsNull(lastConfig) /\ \E t \in TypeSet : lastConfig.mix[t] > 0)
    => \A i \in DOMAIN state.users : lastConfig.mix[state.users[i].type] > 0

\* the bait flags of the impressions 1..j of a post
FlagsUpTo(imps, j) == Cardinality({i \in 1..j : imps[i].flagged})

\* the reactions and comments of the impressions before j of a post
ReactsBefore(imps, j) ==
    Cardinality({i \in 1..(j - 1) : imps[i].rlab # "none"})
    + Cardinality({i \in 1..(j - 1) : imps[i].commented})

C15_RenderKeepsLog ==
    [][lastOp'.op = "render" => state'.rows = state.rows]_vars

\* the line exportCsv is to write for the row r, column by column
C16_Line(r) ==
    <<r.round, r.user_id, "\"" \o r.user_type \o "\"", r.vibe_on, r.followers,
      r.humor, r.insight, r.bait, r.controversy, r.news, r.dunk,
      r.strong_agree, r.agree, r.not_sure, r.disagree, r.strong_disagree,
      r.bait_flags, r.comments, r.reward>>

\* C16: exportCsv on a log of k >= 1 rows writes k + 1 lines: the header with
\* the nineteen field names in row order, then for the i-th row of the log
\* its values in that order, user_type alone in quotes; the state is unchanged.
C16_ExportLines ==
    [][(lastOp'.op = "export" /\ Len(state.rows) >= 1)
         => /\ Len(csv') = Len(state.rows) + 1
            /\ csv'[1] = <<"round", "user_id", "user_type", "vibe_on", "followers",
                           "humor", "insight", "bait", "controversy", "news", "dunk",
                           "strong_agree", "agree", "not_sure", "disagree",
                           "strong_disagree", "bait_flags", "comments", "reward">>
            /\ \A i \in DOMAIN state.rows : csv'[i + 1] = C16_Line(state.rows[i])
            /\ state' = state]_vars

\* an export of four rows, of a Normal and of another type
C16_Witness ==
    /\ lastOp.op = "export"
    /\ Len(state.rows) = 4
    /\ Len(csv) = 5
    /\ \E i \in 2..5 : csv[i][3] = "\"Normal\""
    /\ \E i \in 2..5 : csv[i][3] # "\"Normal\""

\* C17: once startSimulation has returned, runMoreRounds does not throw, and
\* with arguments >= 0 the rounds done are those of the start plus those asked.
C17_ExtendAfterStartNeverFails ==
    (~IsNull(lastConfig) /\ lastOp.op = "extend")
    => /\ thrown = "none"
       /\ ExtendsNonNegative => state.roundsDone = lastConfig.rounds + SumSeq(ext)

\* C18: at every penalised impression the comment probability is the post's
\* comment probability times baitPenaltyMult, and every reaction probability
\* is that impression's adjusted probability times baitPenaltyMult.
C18_PenaltyMultipliesOnce ==
    \A k \in DOMAIN trace : \A j \in DOMAIN trace[k].imps :
        trace[k].imps[j].penalty
        => /\ trace[k].imps[j].commentP
              = Mul(trace[k].commentP0, lastConfig.baitPenaltyMult)
           /\ \A r \in ReactionSet :
                trace[k].imps[j].probs[r]
                = Mul(trace[k].imps[j].adjusted[r], lastConfig.baitPenaltyMult)

\* baitFlags / Math.max(1, reactCount) at the impression j of a post
RatioAt(imps, j) == Div(FlagsUpTo(imps, j) * One, Max(1, ReactsBefore(imps, j)) * One)

\* C19: in every post the penalty flag of an impression is true exactly when
\* it was true at the post's previous impression or the bait ratio of this
\* impression reaches the threshold; the first impression has no previous
\* one, so every post starts unpenalised.
C19_PenaltyStickyWithinPost ==
    \A k \in DOMAIN trace : \A j \in DOMAIN trace[k].imps :
        trace[k].imps[j].penalty
        = (\/ j > 1 /\ trace[k].imps[j - 1].penalty
           \/ RatioAt(trace[k].imps, j) >= lastConfig.baitRatioThresh)

\* a penalised impression whose ratio is below the threshold, and a post that
\* starts unpenalised right after a post that ended penalised
C19_Witness ==
    /\ \E k \in DOMAIN trace : \E j \in DOMAIN trace[k].imps :
         /\ trace[k].imps[j].penalty
         /\ RatioAt(trace[k].imps, j) < lastConfig.baitRatioThresh
    /\ \E k \in DOMAIN trace :
         /\ k + 1 \in DOMAIN trace
         /\ trace[k].imps[Len(trace[k].imps)].penalty
         /\ ~trace[k + 1].imps[1].penalty

\* C20: the followers of the row of a post is the followers the user had when
\* the post was made, the value its reach and local share were computed from.
C20_RowFollowersAtCreation ==
    \A k \in DOMAIN trace :
        state.rows[Len(state.rows) - Len(trace) + k].followers
        = trace[k].followersBefore

\* the row of the log that the k-th post of the last call appended
RowOfPost(k) == state.rows[Len(state.rows) - Len(trace) + k]

\* C21: for every post, the six attribute values of its row are the generated
\* attributes, and the strategy after the post is what learn gives from the
\* generated attributes; the tone and boost transforms give the effective
\* attributes, and reach, the reaction probabilities, the bait-flag probability
\* and the comment probability are computed from the effective attributes.
C21_RowAndLearningUseGeneratedAttrs ==
    \A k \in DOMAIN trace :
        /\ RowOfPost(k) = trace[k].row
        /\ \A a \in AttrSet : trace[k].row[a] = trace[k].attrs[a]
        /\ trace[k].userAfter.strategy
           = learn(trace[k].userBefore, trace[k].attrs, trace[k].vibeOn,
                   trace[k].row.reward, trace[k].refUsed).strategy
        /\ trace[k].eff
           = applyBoosts(vibeAdjust(trace[k].attrs, trace[k].vibeOn, lastConfig),
                         lastConfig.boosts)
        /\ trace[k].probsBase = reactionProbs(trace[k].eff)
        /\ trace[k].baitP
           = baitFlagProb(trace[k].eff, trace[k].vibeOn, lastConfig.vibeFlagMult)
        /\ trace[k].commentP0
           = commentProb(trace[k].eff, trace[k].vibeOn, lastConfig.vibeCommentBoost)
        /\ \E d \in 0..(RngM - 1) :
             trace[k].reach
             = reachFromAttrs(trace[k].eff, lastConfig.reachMin, lastConfig.reachMax,
                              lastConfig.followerReachFactor,
                              trace[k].userBefore.followers, trace[k].vibeOn,
                              lastConfig.vibeReachBoost, RandomValue(d))

\* with boosts of 0.5: a post with the tone on and a post with the tone off,
\* each with effective attributes other than the generated ones and a strategy
\* that learning from the effective attributes would have made different
C21_Witness ==
    /\ ~IsNull(lastConfig)
    /\ lastConfig.boosts.humor = Milli(500)
    /\ \A v \in BOOLEAN :
         \E k \in DOMAIN trace :
            /\ trace[k].vibeOn = v
            /\ trace[k].eff # trace[k].attrs
            /\ trace[k].userAfter.strategy
               # learn(trace[k].userBefore, trace[k].eff, trace[k].vibeOn,
                       trace[k].row.reward, trace[k].refUsed).strategy

\* the log lists the rounds 0, 1, 2, .. in order and, inside each round, the
\* users 0 .. N-1 in order
LogInRoundAndUserOrder ==
    \A i \in DOMAIN state.rows :
        /\ state.rows[i].round = (i - 1) \div Len(state.users)
        /\ state.rows[i].user_id = (i - 1) % Len(state.users)

\* every post of the last call starts from the reference scale the post
\* before it left, and from the user its own previous post left
PostsInSequence ==
    \A k \in DOMAIN trace :
        /\ k + 1 \in DOMAIN trace => trace[k + 1].refBefore = trace[k].refUsed
        /\ k + Len(state.users) \in DOMAIN trace
           => trace[k + Len(state.users)].userBefore = trace[k].userAfter

\* C22: the log is ordered by round and, within a round, by population order:
\* the i-th row has round (i-1) div N and user id (i-1) mod N, so the round
\* indices are contiguous from 0 with no gap and no repeat; and each user's
\* post, learning and follower update are finished before the next post starts.
C22_LogOrderedByRoundAndAgent ==
    LogInRoundAndUserOrder /\ PostsInSequence

\* "cleared" and the bait ratio of the k-th post of the last call
PostCleared(k) ==
    trace[k].row.reward > Mul(lastConfig.followGainThresh, trace[k].refUsed)

PostBaitRatio(k) ==
    Div(trace[k].row.bait_flags * One, Max(1, Len(trace[k].imps)) * One)

RowIn(i, r, t) ==
    state.rows[i].round = r /\ (t = "all" \/ state.rows[i].user_type = t)

LogCount(r, t) ==
    SumSeq([i \in 1..Len(state.rows) |-> IF RowIn(i, r, t) THEN 1 ELSE 0])

LogSum(r, t, f) ==
    SumSeq([i \in 1..Len(state.rows) |-> IF RowIn(i, r, t) THEN state.rows[i][f] ELSE 0])

LogToneCount(r, t) ==
    SumSeq([i \in 1..Len(state.rows) |->
              IF RowIn(i, r, t) /\ state.rows[i].vibe_on THEN 1 ELSE 0])

\* the mean of field f over those rows, 0 when there is none
LogMean(r, t, f) == LogSum(r, t, f) \div Max(1, LogCount(r, t))

\* every series entry of round r is the mean the log gives for round r
SeriesFromLog(r) ==
    /\ r + 1 \in DOMAIN state.seriesReward
    /\ state.seriesReward[r + 1] = LogMean(r, "all", "reward")
    /\ state.seriesBait[r + 1]
       = (LogSum(r, "all", "bait_flags") * One) \div Max(1, LogCount(r, "all"))
    /\ \A j \in 1..Len(ATTRS) :
         state.seriesAttrs[r + 1][j] = LogMean(r, "all", ATTRS[j])
    /\ state.seriesVibeOverall[r + 1]
       = (LogToneCount(r, "all") * One) \div Max(1, LogCount(r, "all"))
    /\ \A t \in TypeSet :
         /\ \A j \in 1..Len(ATTRS) :
              state.seriesAttrsByType[t][r + 1][j] = LogMean(r, t, ATTRS[j])
         /\ state.seriesFollowersByType[t][r + 1]
            = (LogSum(r, t, "followers") * One) \div Max(1, LogCount(r, t))
         /\ state.seriesVibeByType[t][r + 1]
            = (LogToneCount(r, t) * One) \div Max(1, LogCount(r, t))

\* the users after a call are the users their last posts left
UsersAsPostsLeftThem ==
    \A k \in DOMAIN trace :
        k + Len(state.users) > Len(trace)
        => state.users[trace[k].user_id + 1] = trace[k].userAfter

\* C24: for every completed round r (r < roundsDone) the entries at position
\* r of the reward, bait-flag, attribute, per-type attribute, per-type
\* follower and tone series are the means over the rows of the log with
\* round = r (0 for a type with no row), and appending them leaves every user
\* as the user's last post left it.
C24_SeriesAreMeansOfLog ==
    /\ \A r \in 0..(state.roundsDone - 1) : SeriesFromLog(r)
    /\ UsersAsPostsLeftThem

\* the tone bias C25 states: 0.05 for Normal, the base rate of the type for
\* every other type
C25_Bias(t) == IF t = "Normal" THEN Milli(50) ELSE VIBE_PROB[t]

\* C25: after every post the user's tone propensity is 0.95 x (the propensity
\* after the reward-driven step) + 0.05 x the bias of its type, the bias being
\* 0.05 for Normal and the type's base rate otherwise (0 for Joker and Troll).
C25_TonePropensityPulledToTypeBias ==
    \A k \in DOMAIN trace :
        trace[k].userAfter.vibeStrategy
        = clamp01(Mul(Milli(950),
                      VibeRewardStep(trace[k].userBefore, trace[k].vibeOn,
                                     trace[k].row.reward, trace[k].refUsed))
                  + Mul(Milli(50), C25_Bias(trace[k].user_type)))

\* C26: runMoreRounds(n) runs its rounds with the configuration as it was
\* passed to the most recent startSimulation, whatever the caller did to its
\* configuration since: the state and the generator after the call are those
\* runRounds gives with that configuration.
C26_ExtendUsesStartConfig ==
    [][(lastOp'.op = "extend" /\ thrown' = "none")
         => \E x \in {runRounds(lastOp'.arg, startConfig,
                                [st |-> state, rng |-> rng, trace |-> <<>>])} :
               state' = x.st /\ rng' = x.rng]_vars

\* C27: in every impression the denominator of the local share, followers +
\* globalAudienceK, is not zero, and so is 0.75 x the reference scale in every
\* learning update (the other divisions of the pipeline are by Math.max(1, .)
\* or behind a test of the denominator).
C27_NoZeroDenominator ==
    \A k \in DOMAIN trace :
        /\ Mul(Milli(750), trace[k].refUsed) # 0
        /\ \A j \in DOMAIN trace[k].imps : trace[k].imps[j].localDen # 0

\* C28: the reference scale is >= 1 in every reachable state and was >= 1
\* before and after every post, and every update leaves at least
\* 0.98 x ref + 0.02 x 1, whatever the reward (negative rewards included).
C28_RefAtLeastOne ==
    /\ state.ref >= One
    /\ \A k \in DOMAIN trace :
         /\ trace[k].refBefore >= One
         /\ trace[k].refUsed >= One
         /\ trace[k].refUsed
            >= Mul(Milli(980), trace[k].refBefore) + Mul(Milli(20), One)

\* an extension with a post of negative reward, after which the reference
\* scale is below the one before the post
C28_Witness ==
    /\ lastOp.op = "extend"
    /\ state.ref < 100 * One
    /\ \E k \in DOMAIN trace :
         /\ trace[k].row.reward < 0
         /\ trace[k].refUsed < trace[k].refBefore

\* C29: roundsDone is >= 0 and every round series has roundsDone entries,
\* after any sequence of startSimulation and runMoreRounds calls, whatever
\* integer runMoreRounds is given.
C29_RoundsDoneIsSeriesLength ==
    /\ state.roundsDone >= 0
    /\ SeriesLengths(state, state.roundsDone)

\* how many of the impressions satisfy what
ReactionsOf(imps) == Cardinality({j \in DOMAIN imps : imps[j].rlab # "none"})
CommentsOf(imps) == Cardinality({j \in DOMAIN imps : imps[j].commented})
FlagsOf(imps) == Cardinality({j \in DOMAIN imps : imps[j].flagged})

\* C30: every post has reach >= 5 and exactly reach impressions; its five
\* reaction counts sum to the number of impressions that drew a reaction, its
\* comments and bait flags are the numbers of impressions that commented and
\* flagged; so each of the three is between 0 and reach, and no count of any
\* row of the log is negative.
C30_CountsWithinReach ==
    /\ \A k \in DOMAIN trace :
         /\ trace[k].reach >= 5
         /\ Len(trace[k].imps) = trace[k].reach
         /\ SumCounts(trace[k].row) = ReactionsOf(trace[k].imps)
         /\ trace[k].row.comments = CommentsOf(trace[k].imps)
         /\ trace[k].row.bait_flags = FlagsOf(trace[k].imps)
         /\ SumCounts(trace[k].row) <= trace[k].reach
         /\ trace[k].row.comments <= trace[k].reach
         /\ trace[k].row.bait_flags <= trace[k].reach
    /\ \A i \in DOMAIN state.rows :
         /\ \A r \in ReactionSet : state.rows[i][r] >= 0
         /\ state.rows[i].comments >= 0
         /\ state.rows[i].bait_flags >= 0

\* a post at the minimum reach of 5 and a post with a greater reach, one of
\* them with a reaction at every impression
C30_Witness ==
    /\ \E k \in DOMAIN trace : trace[k].reach = 5
    /\ \E k \in DOMAIN trace : trace[k].reach > 5
    /\ \E k \in DOMAIN trace : SumCounts(trace[k].row) = trace[k].reach

====
